---- MODULE Spec2Model ----
(***************************************************************************)
(* Cooperative tick-driven scheduler with a delta-time sorted task list.   *)
(* The queue is the linked list g_TaskListHead of the list scheduler; a    *)
(* node is a record, the list a sequence of nodes, head first.             *)
(*                                                                         *)
(* Fields pTask, Delay, Period, TaskID are the fields of TaskNode.  The    *)
(* fields due, seq and rearmed are history fields that the program does    *)
(* not store: the tick at which the node was asked to run, the number of   *)
(* the insertion that placed it, and whether a reschedule placed it.       *)
(***************************************************************************)
EXTENDS Integers, Sequences, FiniteSets

VARIABLES
    queue,          \* g_TaskListHead: the list, head first
    g_CurrentTick,  \* tick counter
    g_NextTaskID,   \* next id to hand out
    g_ErrorCode,    \* error slot
    op,             \* the operation that ran last
    ret,            \* its return value
    pos,            \* list position it inserted at or removed from (0: none);
                    \* after SCH_Init, the number of nodes it freed
    ran,            \* nodes whose callback the last SCH_Dispatch_Tasks invoked, in order
    allocFailed,    \* number of reschedule allocations that failed in the last dispatch
    lastInv,        \* <<due, seq>> of the most recently invoked node, <<>> if none
    retired,        \* ids of the one-shot tasks that have been invoked
    trackOrder,     \* whether seq, rearmed and lastInv are recorded in this behaviour
    pc,             \* where the main loop stands inside SCH_Add_Task or
                    \* SCH_Delete_Task when the tick interrupt can arrive between
                    \* their steps; "idle" between calls
    loc,            \* the locals of that call: the node it holds, the register
                    \* of a load not yet stored, and DELAY
    SCH_tasks_G,    \* the task array of the array scheduler (Core/Src/scheduler.c)
    Error_code_G,   \* its error code
    Task_ID_Counter \* its id counter

arrayVars == <<SCH_tasks_G, Error_code_G, Task_ID_Counter>>

listVars == <<queue, g_CurrentTick, g_NextTaskID, g_ErrorCode, pos, ran,
              allocFailed, lastInv, retired, trackOrder, pc, loc>>

vars == <<queue, g_CurrentTick, g_NextTaskID, g_ErrorCode, op, ret, pos, ran,
          allocFailed, lastInv, retired, trackOrder, pc, loc, arrayVars>>

(***************************************************************************)
(* Bounds of the exploration.                                              *)
(***************************************************************************)
MaxTasks  == 3      \* nodes the heap can hold
MaxDelay  == 2      \* largest DELAY passed to SCH_Add_Task
MaxPeriod == 1      \* largest PERIOD passed to SCH_Add_Task
MaxTick   == 2      \* ticks explored after SCH_Init
MaxID     == 3      \* ids handed out after SCH_Init
MaxLive   == 2      \* slots of the task array in use at a time
UintModulus == 4    \* modulus of the unsigned arithmetic on delays and ticks:
                    \* stands for the 2^32 of uint32_t, scaled so that delays
                    \* can range over every value of the type

(***************************************************************************)
(* Program constants.                                                      *)
(***************************************************************************)
ERROR_SCH_TOO_MANY_TASKS     == 1
ERROR_SCH_CANNOT_DELETE_TASK == 2
ERROR_SCH_TASK_NOT_FOUND     == 3
NO_TASK_ID                   == 0
SCH_MAX_TASKS                == 40
RETURN_ERROR                 == 0
RETURN_NORMAL                == 1
NULL == "NULL"
Funcs == {"Task_LED1"}

Add32(a, b) == (a + b) % UintModulus
Sub32(a, b) == (a - b + UintModulus) % UintModulus

RECURSIVE PrefixSum(_, _)
PrefixSum(q, i) == IF i = 0 THEN 0 ELSE PrefixSum(q, i - 1) + q[i].Delay

Ids(q) == {q[i].TaskID : i \in 1..Len(q)}

(***************************************************************************)
(* Insertion numbers.  Only their order matters, so after every operation  *)
(* the numbers of the queued nodes and of the last invoked node are        *)
(* renumbered 1..k in the same order.                                      *)
(***************************************************************************)
SeqsOf(q, li) == {q[i].seq : i \in 1..Len(q)} \cup (IF li = <<>> THEN {} ELSE {li[2]})
MaxOf(S) == IF S = {} THEN 0 ELSE CHOOSE m \in S : \A x \in S : x <= m
Rank(S, x) == Cardinality({y \in S : y <= x})
RenumberQueue(q, li) == [i \in 1..Len(q) |-> [q[i] EXCEPT !.seq = Rank(SeqsOf(q, li), @)]]
RenumberInv(q, li) == IF li = <<>> THEN li ELSE <<li[1], Rank(SeqsOf(q, li), li[2])>>

(***************************************************************************)
(* The list in the state SCH_Init leaves and the node SCH_Add_Task builds. *)
(***************************************************************************)
EmptyList == <<>>
NoInv == <<>>
NoLocals == [node |-> <<>>, tmp |-> 0, DELAY |-> 0]

NewNode(pFunction, PERIOD, id, dueTick, n, re) ==
    [pTask |-> pFunction, Delay |-> 0, Period |-> PERIOD, TaskID |-> id,
     due |-> dueTick, seq |-> n, rearmed |-> re]

InsertAt(q, p, node) == SubSeq(q, 1, p - 1) \o <<node>> \o SubSeq(q, p, Len(q))

\* a plausible slip: the loop stops at a node with the same cumulative delay
RECURSIVE AddWalkStrict(_, _, _, _)
AddWalkStrict(q, current, accumulatedTime, DELAY) ==
    IF current < Len(q) /\ Add32(accumulatedTime, q[current + 1].Delay) < DELAY
    THEN AddWalkStrict(q, current + 1, Add32(accumulatedTime, q[current + 1].Delay), DELAY)
    ELSE <<current, accumulatedTime>>

(***************************************************************************)
(* The search loop of SCH_Add_Task: current starts at the head, and moves  *)
(* on while the next node's cumulative delay is <= DELAY.  The result is   *)
(* <<position of current, accumulatedTime>>.                               *)
(***************************************************************************)
RECURSIVE AddWalk(_, _, _, _)
AddWalk(q, current, accumulatedTime, DELAY) ==
    IF current < Len(q) /\ Add32(accumulatedTime, q[current + 1].Delay) <= DELAY
    THEN AddWalk(q, current + 1, Add32(accumulatedTime, q[current + 1].Delay), DELAY)
    ELSE <<current, accumulatedTime>>

\* a plausible slip: the head case is left to the search loop
AddInsertNoHeadCase(q, newTask, DELAY) ==
    IF q = EmptyList
    THEN [q |-> <<[newTask EXCEPT !.Delay = DELAY]>>, pos |-> 1]
    ELSE LET w == AddWalk(q, 1, q[1].Delay, DELAY)
             current == w[1]
             d == Sub32(DELAY, w[2])
             q1 == IF current < Len(q)
                   THEN [q EXCEPT ![current + 1].Delay = Sub32(@, d)]
                   ELSE q
         IN [q |-> InsertAt(q1, current + 1, [newTask EXCEPT !.Delay = d]),
             pos |-> current + 1]

\* a plausible slip: the node after the new one keeps its old relative delay
AddInsertNoAdjust(q, newTask, DELAY) ==
    IF q = EmptyList \/ DELAY < q[1].Delay
    THEN [q |-> <<[newTask EXCEPT !.Delay = DELAY]>> \o q, pos |-> 1]
    ELSE LET w == AddWalk(q, 1, q[1].Delay, DELAY)
         IN [q |-> InsertAt(q, w[1] + 1, [newTask EXCEPT !.Delay = Sub32(DELAY, w[2])]),
             pos |-> w[1] + 1]

(***************************************************************************)
(* The sorted insertion of SCH_Add_Task: the list after newTask is linked  *)
(* in, and the position it is linked at.                                   *)
(***************************************************************************)
AddInsert(q, newTask, DELAY) ==
    IF q = EmptyList \/ DELAY < q[1].Delay
    THEN [q |-> <<[newTask EXCEPT !.Delay = DELAY]>> \o
                (IF q = EmptyList THEN <<>>
                 ELSE <<[q[1] EXCEPT !.Delay = Sub32(@, DELAY)]>> \o Tail(q)),
          pos |-> 1]
    ELSE LET w == AddWalk(q, 1, q[1].Delay, DELAY)
             current == w[1]
             d == Sub32(DELAY, w[2])
             q1 == IF current < Len(q)
                   THEN [q EXCEPT ![current + 1].Delay = Sub32(@, d)]
                   ELSE q
         IN [q |-> InsertAt(q1, current + 1, [newTask EXCEPT !.Delay = d]),
             pos |-> current + 1]

\* a plausible slip: the copied loop stops at a node with the same cumulative delay
RECURSIVE ReschedWalkStrict(_, _, _, _)
ReschedWalkStrict(q, current, accum, savedPeriod) ==
    IF current < Len(q) /\ Add32(accum, q[current + 1].Delay) < savedPeriod
    THEN ReschedWalkStrict(q, current + 1, Add32(accum, q[current + 1].Delay), savedPeriod)
    ELSE <<current, accum>>

(***************************************************************************)
(* The same insertion as SCH_Dispatch_Tasks writes it out for the node it  *)
(* reschedules.                                                            *)
(***************************************************************************)
RECURSIVE ReschedWalk(_, _, _, _)
ReschedWalk(q, current, accum, savedPeriod) ==
    IF current < Len(q) /\ Add32(accum, q[current + 1].Delay) <= savedPeriod
    THEN ReschedWalk(q, current + 1, Add32(accum, q[current + 1].Delay), savedPeriod)
    ELSE <<current, accum>>

ReschedInsert(q, rescheduled, savedPeriod) ==
    IF q = EmptyList \/ savedPeriod < q[1].Delay
    THEN <<[rescheduled EXCEPT !.Delay = savedPeriod]>> \o
         (IF q = EmptyList THEN <<>>
          ELSE <<[q[1] EXCEPT !.Delay = Sub32(@, savedPeriod)]>> \o Tail(q))
    ELSE LET w == ReschedWalk(q, 1, q[1].Delay, savedPeriod)
             current == w[1]
             d == Sub32(savedPeriod, w[2])
             q1 == IF current < Len(q)
                   THEN [q EXCEPT ![current + 1].Delay = Sub32(@, d)]
                   ELSE q
         IN InsertAt(q1, current + 1, [rescheduled EXCEPT !.Delay = d])

(***************************************************************************)
(* SCH_Delete_Task's scan: position of the first node carrying taskID,     *)
(* 0 if there is none; and the unlinking with the donation of the delay.   *)
(***************************************************************************)
\* a plausible slip: the scan stops at the first id that is not smaller
FindTaskLoose(q, taskID) ==
    IF \E i \in 1..Len(q) : q[i].TaskID >= taskID
    THEN CHOOSE i \in 1..Len(q) :
            /\ q[i].TaskID >= taskID
            /\ \A j \in 1..(i - 1) : q[j].TaskID < taskID
    ELSE 0

FindTask(q, taskID) ==
    IF \E i \in 1..Len(q) : q[i].TaskID = taskID
    THEN CHOOSE i \in 1..Len(q) :
            /\ q[i].TaskID = taskID
            /\ \A j \in 1..(i - 1) : q[j].TaskID # taskID
    ELSE 0

\* plausible slips: the removed node's delay is dropped, always or at the head
UnlinkNoDonate(q, i) == SubSeq(q, 1, i - 1) \o SubSeq(q, i + 1, Len(q))

UnlinkHeadNoDonate(q, i) ==
    LET q1 == IF i < Len(q) /\ i > 1
              THEN [q EXCEPT ![i + 1].Delay = Add32(@, q[i].Delay)]
              ELSE q
    IN SubSeq(q1, 1, i - 1) \o SubSeq(q1, i + 1, Len(q1))

Unlink(q, i) ==
    LET q1 == IF i < Len(q)
              THEN [q EXCEPT ![i + 1].Delay = Add32(@, q[i].Delay)]
              ELSE q
    IN SubSeq(q1, 1, i - 1) \o SubSeq(q1, i + 1, Len(q1))

(***************************************************************************)
(* The loop of SCH_Dispatch_Tasks.  s holds the list, the nodes invoked so *)
(* far, the failed allocations, the last insertion number and the retired  *)
(* one-shots; iter counts the iterations and fails is the set of           *)
(* iterations whose malloc returns NULL.                                   *)
(***************************************************************************)
\* a plausible slip: the loop also asks for a node behind the head
HeadDueNotLast(q) == Len(q) > 1 /\ q[1].Delay = 0

\* the loop condition
HeadDue(q) == q # EmptyList /\ q[1].Delay = 0

RECURSIVE DispatchLoop(_, _, _, _)
DispatchLoop(s, iter, fails, now) ==
    IF HeadDue(s.q)
    THEN LET taskToRun == s.q[1]
             rest == Tail(s.q)
             invoked == IF taskToRun.pTask # NULL THEN Append(s.ran, taskToRun) ELSE s.ran
             s1 == IF taskToRun.Period > 0
                   THEN IF iter \notin fails
                        THEN [s EXCEPT !.q = ReschedInsert(rest,
                                                NewNode(taskToRun.pTask, taskToRun.Period,
                                                        taskToRun.TaskID,
                                                        now + taskToRun.Period,
                                                        IF s.track THEN s.ins + 1 ELSE 0,
                                                        s.track),
                                                taskToRun.Period),
                                       !.ran = invoked,
                                       !.ins = s.ins + 1]
                        ELSE [s EXCEPT !.q = rest, !.ran = invoked, !.failed = s.failed + 1]
                   ELSE [s EXCEPT !.q = rest, !.ran = invoked,
                                  !.retired = s.retired \cup {taskToRun.TaskID}]
         IN DispatchLoop(s1, iter + 1, fails, now)
    ELSE s

(***************************************************************************)
(* The two early returns of SCH_Add_Task, and its g_NextTaskID++.          *)
(***************************************************************************)
\* a plausible slip: the callback is not checked
AddFailsNoNullCheck(pFunction, mallocOK) == ~mallocOK

AddFails(pFunction, mallocOK) == pFunction = NULL \/ ~mallocOK

\* a plausible slip: the counter is read and not incremented
NextIDStuck(id) == id

\* g_NextTaskID is an unsigned integer of fixed width: the increment wraps.
\* IdModulus stands for the 2^32 of uint32_t, scaled to the ids explored.
IdModulus == MaxID + 2

NextID(id) == (id + 1) % IdModulus

(***************************************************************************)
(* The array scheduler: SCH_tasks_G is an array of SCH_MAX_TASKS slots, a  *)
(* slot is free when its pTask is NULL.                                    *)
(***************************************************************************)
\* the list scheduler and the array scheduler define the same functions and
\* are not linked into one program: in a build with the list there is no array
NoArray == <<>>

EmptySlot == [pTask |-> NULL, Delay |-> 0, Period |-> 0, RunMe |-> 0, TaskID |-> 0]

Occupied(tasks) == {Index \in 0..(SCH_MAX_TASKS - 1) : tasks[Index].pTask # NULL}

\* the slot the search of the array SCH_Add_Task stops at, SCH_MAX_TASKS if
\* every slot is taken
FirstGap(tasks) ==
    IF Occupied(tasks) = 0..(SCH_MAX_TASKS - 1) THEN SCH_MAX_TASKS
    ELSE CHOOSE Index \in 0..(SCH_MAX_TASKS - 1) :
            /\ tasks[Index].pTask = NULL
            /\ \A j \in 0..(Index - 1) : tasks[j].pTask # NULL

\* the slot the scan of the array SCH_Delete_Task stops at, SCH_MAX_TASKS if
\* no slot carries taskID
FirstWithID(tasks, taskID) ==
    IF \A Index \in 0..(SCH_MAX_TASKS - 1) : tasks[Index].TaskID # taskID
    THEN SCH_MAX_TASKS
    ELSE CHOOSE Index \in 0..(SCH_MAX_TASKS - 1) :
            /\ tasks[Index].TaskID = taskID
            /\ \A j \in 0..(Index - 1) : tasks[j].TaskID # taskID

\* the array and the return code after SCH_Delete_Task(taskID)
DeleteFrom(tasks, taskID) ==
    LET Index == FirstWithID(tasks, taskID)
    IN IF Index < SCH_MAX_TASKS
       THEN [tasks |-> [tasks EXCEPT ![Index] = EmptySlot], code |-> RETURN_NORMAL]
       ELSE [tasks |-> tasks, code |-> RETURN_ERROR]

\* the loop of the array SCH_Init: SCH_Delete_Task(i) for i, i + 1, ...
\* (once no slot is taken the remaining calls change nothing)
RECURSIVE InitLoop(_, _)
InitLoop(tasks, i) ==
    IF i < SCH_MAX_TASKS
    THEN LET cleared == DeleteFrom(tasks, i).tasks
         IN IF Occupied(cleared) = {} THEN cleared ELSE InitLoop(cleared, i + 1)
    ELSE tasks

(***************************************************************************)
(* Operations.                                                             *)
(***************************************************************************)
InitState ==
    /\ queue = EmptyList
    /\ g_CurrentTick = 0
    /\ g_NextTaskID = 1
    /\ g_ErrorCode = 0
    /\ op = "Start"
    /\ ret = 0
    /\ pos = 0
    /\ ran = <<>>
    /\ allocFailed = 0
    /\ lastInv = NoInv
    /\ retired = {}
    /\ pc = "idle"
    /\ loc = NoLocals
    /\ SCH_tasks_G = NoArray
    /\ Error_code_G = 0
    /\ Task_ID_Counter = 1

Init == InitState /\ trackOrder = FALSE

\* the build with the array scheduler: the list is not used, and the array
\* is as the C start-up code leaves it, all zero
InitArray ==
    /\ queue = EmptyList
    /\ g_CurrentTick = 0
    /\ g_NextTaskID = 1
    /\ g_ErrorCode = 0
    /\ op = "Start"
    /\ ret = 0
    /\ pos = 0
    /\ ran = <<>>
    /\ allocFailed = 0
    /\ lastInv = NoInv
    /\ retired = {}
    /\ trackOrder = FALSE
    /\ pc = "idle"
    /\ loc = NoLocals
    /\ SCH_tasks_G = [Index \in 0..(SCH_MAX_TASKS - 1) |-> EmptySlot]
    /\ Error_code_G = 0
    /\ Task_ID_Counter = 1

\* a plausible slip: the id counter is left where it was
SCH_Init_KeepsCounter ==
    /\ queue' = EmptyList
    /\ g_CurrentTick' = 0
    /\ g_ErrorCode' = 0
    /\ op' = "Init"
    /\ ret' = 0
    /\ pos' = Len(queue)
    /\ ran' = <<>>
    /\ allocFailed' = 0
    /\ lastInv' = NoInv
    /\ retired' = {}
    /\ UNCHANGED <<g_NextTaskID, trackOrder, arrayVars, pc, loc>>

SCH_Init ==
    /\ queue' = EmptyList
    /\ g_CurrentTick' = 0
    /\ g_NextTaskID' = 1
    /\ g_ErrorCode' = 0
    /\ op' = "Init"
    /\ ret' = 0
    /\ pos' = Len(queue)
    /\ ran' = <<>>
    /\ allocFailed' = 0
    /\ lastInv' = NoInv
    /\ retired' = {}
    /\ UNCHANGED <<trackOrder, arrayVars, pc, loc>>

\* a plausible slip: the tick handler of a scheduler without delta times,
\* which decrements every waiting node
SCH_Update_AllNodes ==
    /\ g_CurrentTick < MaxTick
    /\ g_CurrentTick' = Add32(g_CurrentTick, 1)
    /\ queue' = [i \in 1..Len(queue) |->
                    IF queue[i].Delay > 0
                    THEN [queue[i] EXCEPT !.Delay = Sub32(@, 1)]
                    ELSE queue[i]]
    /\ op' = "Update"
    /\ ret' = 0
    /\ pos' = 0
    /\ ran' = <<>>
    /\ allocFailed' = 0
    /\ UNCHANGED <<g_NextTaskID, g_ErrorCode, lastInv, retired, trackOrder, arrayVars, pc, loc>>

SCH_Update ==
    /\ g_CurrentTick < MaxTick
    /\ g_CurrentTick' = Add32(g_CurrentTick, 1)
    /\ queue' = IF queue # EmptyList /\ queue[1].Delay > 0
                THEN [queue EXCEPT ![1].Delay = Sub32(@, 1)]
                ELSE queue
    /\ op' = "Update"
    /\ ret' = 0
    /\ pos' = 0
    /\ ran' = <<>>
    /\ allocFailed' = 0
    /\ UNCHANGED <<g_NextTaskID, g_ErrorCode, lastInv, retired, trackOrder, arrayVars, pc, loc>>

SCH_Add_Task(pFunction, DELAY, PERIOD, mallocOK) ==
    /\ op' = "Add"
    /\ ran' = <<>>
    /\ allocFailed' = 0
    /\ IF AddFails(pFunction, mallocOK)
       THEN /\ g_ErrorCode' = ERROR_SCH_TOO_MANY_TASKS
            /\ ret' = NO_TASK_ID
            /\ pos' = 0
            /\ UNCHANGED <<queue, g_NextTaskID>>
       ELSE /\ Len(queue) < MaxTasks
            /\ LET r == AddInsert(queue,
                                  NewNode(pFunction, PERIOD, g_NextTaskID,
                                          g_CurrentTick + DELAY,
                                          IF trackOrder
                                          THEN MaxOf(SeqsOf(queue, lastInv)) + 1 ELSE 0,
                                          FALSE),
                                  DELAY)
               IN /\ queue' = r.q
                  /\ pos' = r.pos
            /\ g_NextTaskID' = NextID(g_NextTaskID)
            /\ ret' = g_NextTaskID
            /\ UNCHANGED g_ErrorCode
    /\ UNCHANGED <<g_CurrentTick, lastInv, retired, trackOrder, arrayVars, pc, loc>>

SCH_Delete_Task(taskID) ==
    /\ op' = "Delete"
    /\ ran' = <<>>
    /\ allocFailed' = 0
    /\ IF queue = EmptyList
       THEN /\ g_ErrorCode' = ERROR_SCH_CANNOT_DELETE_TASK
            /\ ret' = 0
            /\ pos' = 0
            /\ UNCHANGED <<queue, lastInv>>
       ELSE LET i == FindTask(queue, taskID)
            IN IF i # 0
               THEN /\ queue' = RenumberQueue(Unlink(queue, i), lastInv)
                    /\ lastInv' = RenumberInv(Unlink(queue, i), lastInv)
                    /\ ret' = 1
                    /\ pos' = i
                    /\ UNCHANGED g_ErrorCode
               ELSE /\ g_ErrorCode' = ERROR_SCH_TASK_NOT_FOUND
                    /\ ret' = 0
                    /\ pos' = 0
                    /\ UNCHANGED <<queue, lastInv>>
    /\ UNCHANGED <<g_CurrentTick, g_NextTaskID, retired, trackOrder, arrayVars, pc, loc>>

SCH_Dispatch_Tasks(fails) ==
    LET s == DispatchLoop([q |-> queue, ran |-> <<>>, failed |-> 0,
                           ins |-> MaxOf(SeqsOf(queue, lastInv)), retired |-> retired,
                           track |-> trackOrder],
                          1, fails, g_CurrentTick)
        li == IF s.ran = <<>> \/ ~trackOrder THEN lastInv
              ELSE <<s.ran[Len(s.ran)].due, s.ran[Len(s.ran)].seq>>
    IN /\ queue' = RenumberQueue(s.q, li)
       /\ lastInv' = RenumberInv(s.q, li)
       /\ ran' = s.ran
       /\ allocFailed' = s.failed
       /\ retired' = s.retired
       /\ op' = "Dispatch"
       /\ ret' = 0
       /\ pos' = 0
       /\ UNCHANGED <<g_CurrentTick, g_NextTaskID, g_ErrorCode, trackOrder, arrayVars, pc, loc>>

SCH_Get_Current_Time ==
    /\ op' = "GetTime"
    /\ ret' = (g_CurrentTick * 10) % UintModulus
    /\ pos' = 0
    /\ ran' = <<>>
    /\ allocFailed' = 0
    /\ UNCHANGED <<queue, g_CurrentTick, g_NextTaskID, g_ErrorCode, lastInv, retired,
                   trackOrder, arrayVars, pc, loc>>

SCH_Get_Error_Code ==
    /\ op' = "GetError"
    /\ ret' = g_ErrorCode
    /\ g_ErrorCode' = 0
    /\ pos' = 0
    /\ ran' = <<>>
    /\ allocFailed' = 0
    /\ UNCHANGED <<queue, g_CurrentTick, g_NextTaskID, lastInv, retired, trackOrder, arrayVars, pc, loc>>

\* malloc is only reached with a callback that is not NULL; at most MaxID
\* ids are handed out after an SCH_Init
AddStep ==
    \E pFunction \in Funcs \cup {NULL}, DELAY \in 0..MaxDelay, PERIOD \in 0..MaxPeriod :
        \E mallocOK \in (IF pFunction = NULL THEN {TRUE} ELSE BOOLEAN) :
            /\ AddFails(pFunction, mallocOK) \/ g_NextTaskID <= MaxID
            /\ SCH_Add_Task(pFunction, DELAY, PERIOD, mallocOK)

DeleteStep == \E taskID \in 0..MaxID : SCH_Delete_Task(taskID)

\* the loop runs once for each node that is due when the call begins
DueCount(q) == Cardinality({i \in 1..Len(q) : PrefixSum(q, i) = 0})

DispatchStep == \E fails \in SUBSET (1..DueCount(queue)) : SCH_Dispatch_Tasks(fails)

(***************************************************************************)
(* Spec: every operation, in any order.                                    *)
(***************************************************************************)
Next ==
    \/ SCH_Init
    \/ SCH_Update
    \/ AddStep
    \/ DeleteStep
    \/ DispatchStep
    \/ SCH_Get_Current_Time
    \/ SCH_Get_Error_Code

Spec == Init /\ [][Next]_vars

(***************************************************************************)
(* SpecNoTick: registrations and deletions only, no tick and no dispatch.  *)
(***************************************************************************)
NextNoTick ==
    \/ AddStep
    \/ DeleteStep

SpecNoTick == Init /\ [][NextNoTick]_vars

(***************************************************************************)
(* SpecPrompt: the main loop calls SCH_Dispatch_Tasks after every tick, so *)
(* the operation after an SCH_Update is always SCH_Dispatch_Tasks.  The    *)
(* insertion order and the last invocation are recorded.                   *)
(***************************************************************************)
InitPrompt == InitState /\ trackOrder = TRUE

NextPrompt ==
    \/ op # "Update" /\ SCH_Update
    \/ op # "Update" /\ AddStep
    \/ op # "Update" /\ DeleteStep
    \/ DispatchStep

SpecPrompt == InitPrompt /\ [][NextPrompt]_vars

(***************************************************************************)
(* SpecWrap: registrations and deletions with no limit on the number of    *)
(* ids handed out, so that g_NextTaskID++ reaches the end of its range.    *)
(***************************************************************************)
AddStepWrap ==
    \E pFunction \in Funcs \cup {NULL}, DELAY \in 0..MaxDelay, PERIOD \in 0..MaxPeriod :
        \E mallocOK \in (IF pFunction = NULL THEN {TRUE} ELSE BOOLEAN) :
            SCH_Add_Task(pFunction, DELAY, PERIOD, mallocOK)

DeleteStepWrap == \E taskID \in 0..(IdModulus - 1) : SCH_Delete_Task(taskID)

NextWrap ==
    \/ AddStepWrap
    \/ DeleteStepWrap

SpecWrap == Init /\ [][NextWrap]_vars

(***************************************************************************)
(* SpecFull: delays and periods range over every value of the unsigned     *)
(* type.  Allocations succeed and deletions name a queued task.           *)
(***************************************************************************)
AddStepFull ==
    \E pFunction \in Funcs, DELAY \in 0..(UintModulus - 1), PERIOD \in 0..(UintModulus - 1) :
        /\ g_NextTaskID <= MaxID
        /\ SCH_Add_Task(pFunction, DELAY, PERIOD, TRUE)

DeleteStepLive == \E taskID \in Ids(queue) : SCH_Delete_Task(taskID)

NextFull ==
    \/ SCH_Init
    \/ SCH_Update
    \/ AddStepFull
    \/ DeleteStepLive
    \/ SCH_Dispatch_Tasks({})

SpecFull == Init /\ [][NextFull]_vars

(***************************************************************************)
(* SpecISR: SCH_Update is the timer interrupt and arrives between any two  *)
(* steps of a main-loop SCH_Add_Task or SCH_Delete_Task; the code takes no *)
(* critical section.  A step is a stretch of the call that reads or writes *)
(* g_TaskListHead->Delay at most once: the interrupt writes nothing else   *)
(* of the list, so the steps between are not told apart.  The compound     *)
(* assignments to g_TaskListHead->Delay are a load and a store.  The calls *)
(* are made with a callback and an allocation that succeeds.               *)
(*                                                                         *)
(* due is kept as the tick at which a node is to run given the ticks the   *)
(* handler has counted: a tick that finds no head with Delay > 0 moves     *)
(* every due on by one, and a node that is linked gets the due its         *)
(* cumulative delay stands for at that moment.                             *)
(***************************************************************************)
DueMovedOn(q) == [i \in 1..Len(q) |-> [q[i] EXCEPT !.due = @ + 1]]

SCH_Update_ISR ==
    /\ g_CurrentTick < MaxTick
    /\ g_CurrentTick' = Add32(g_CurrentTick, 1)
    /\ IF queue # EmptyList /\ queue[1].Delay > 0
       THEN /\ queue' = [queue EXCEPT ![1].Delay = Sub32(@, 1)]
            /\ UNCHANGED loc
       ELSE /\ queue' = DueMovedOn(queue)
            /\ loc' = [loc EXCEPT !.node = DueMovedOn(@)]
    /\ UNCHANGED <<g_NextTaskID, g_ErrorCode, op, ret, pos, ran, allocFailed, lastInv,
                   retired, trackOrder, arrayVars, pc>>

\* SCH_Add_Task up to the test that chooses between head and search, and the
\* read of accumulatedTime in the search branch
Add_Begin(pFunction, DELAY, PERIOD) ==
    /\ pc = "idle"
    /\ Len(queue) < MaxTasks
    /\ g_NextTaskID <= MaxID
    /\ g_NextTaskID' = NextID(g_NextTaskID)
    /\ LET newTask == NewNode(pFunction, PERIOD, g_NextTaskID, 0, 0, FALSE)
       IN IF queue = EmptyList \/ DELAY < queue[1].Delay
          THEN /\ loc' = [node |-> <<[newTask EXCEPT !.Delay = DELAY]>>, tmp |-> 0,
                          DELAY |-> DELAY]
               /\ pc' = IF queue = EmptyList THEN "add_head_link" ELSE "add_head_load"
          ELSE /\ loc' = [node |-> <<newTask>>, tmp |-> queue[1].Delay, DELAY |-> DELAY]
               /\ pc' = "add_search"
    /\ UNCHANGED <<queue, g_CurrentTick, g_ErrorCode, op, ret, pos, ran, allocFailed,
                   lastInv, retired, trackOrder, arrayVars>>

\* g_TaskListHead->Delay -= DELAY: the load
Add_HeadLoad ==
    /\ pc = "add_head_load"
    /\ loc' = [loc EXCEPT !.tmp = queue[1].Delay]
    /\ pc' = "add_head_store"
    /\ UNCHANGED <<queue, g_CurrentTick, g_NextTaskID, g_ErrorCode, op, ret, pos, ran,
                   allocFailed, lastInv, retired, trackOrder, arrayVars>>

\* g_TaskListHead->Delay -= DELAY: the store
Add_HeadStore ==
    /\ pc = "add_head_store"
    /\ queue' = [queue EXCEPT ![1].Delay = Sub32(loc.tmp, loc.DELAY)]
    /\ pc' = "add_head_link"
    /\ UNCHANGED <<g_CurrentTick, g_NextTaskID, g_ErrorCode, op, ret, pos, ran,
                   allocFailed, lastInv, retired, trackOrder, arrayVars, loc>>

\* newTask->next = g_TaskListHead; g_TaskListHead = newTask; return
Add_HeadLink ==
    /\ pc = "add_head_link"
    /\ queue' = <<[loc.node[1] EXCEPT !.due = g_CurrentTick + loc.DELAY]>> \o queue
    /\ pc' = "idle"
    /\ loc' = NoLocals
    /\ op' = "Add"
    /\ ret' = loc.node[1].TaskID
    /\ pos' = 1
    /\ ran' = <<>>
    /\ allocFailed' = 0
    /\ UNCHANGED <<g_CurrentTick, g_NextTaskID, g_ErrorCode, lastInv, retired, trackOrder, arrayVars>>

\* the search loop from the accumulatedTime read earlier, and the linking
Add_Search ==
    /\ pc = "add_search"
    /\ LET w == AddWalk(queue, 1, loc.tmp, loc.DELAY)
           current == w[1]
           d == Sub32(loc.DELAY, w[2])
           q1 == IF current < Len(queue)
                 THEN [queue EXCEPT ![current + 1].Delay = Sub32(@, d)]
                 ELSE queue
           newTask == [loc.node[1] EXCEPT
                          !.Delay = d,
                          !.due = g_CurrentTick + PrefixSum(queue, current) + d]
       IN /\ queue' = InsertAt(q1, current + 1, newTask)
          /\ pos' = current + 1
    /\ pc' = "idle"
    /\ loc' = NoLocals
    /\ op' = "Add"
    /\ ret' = loc.node[1].TaskID
    /\ ran' = <<>>
    /\ allocFailed' = 0
    /\ UNCHANGED <<g_CurrentTick, g_NextTaskID, g_ErrorCode, lastInv, retired, trackOrder, arrayVars>>

\* SCH_Delete_Task up to the unlinking; behind the head it writes no Delay
\* that the interrupt writes, and the call is one step
Delete_Begin(taskID) ==
    /\ pc = "idle"
    /\ IF FindTask(queue, taskID) = 1 /\ Len(queue) > 1
       THEN /\ queue' = Tail(queue)
            /\ loc' = [node |-> <<queue[1]>>, tmp |-> 0, DELAY |-> 0]
            /\ pc' = "del_head_load"
            /\ UNCHANGED <<g_CurrentTick, g_NextTaskID, g_ErrorCode, op, ret, pos, ran,
                           allocFailed, lastInv, retired, trackOrder, arrayVars>>
       ELSE SCH_Delete_Task(taskID)

\* g_TaskListHead->Delay += current->Delay: the load
Delete_HeadLoad ==
    /\ pc = "del_head_load"
    /\ loc' = [loc EXCEPT !.tmp = queue[1].Delay]
    /\ pc' = "del_head_store"
    /\ UNCHANGED <<queue, g_CurrentTick, g_NextTaskID, g_ErrorCode, op, ret, pos, ran,
                   allocFailed, lastInv, retired, trackOrder, arrayVars>>

\* g_TaskListHead->Delay += current->Delay: the store; free and return
Delete_HeadStore ==
    /\ pc = "del_head_store"
    /\ queue' = [queue EXCEPT ![1].Delay = Add32(loc.tmp, loc.node[1].Delay)]
    /\ pc' = "idle"
    /\ loc' = NoLocals
    /\ op' = "Delete"
    /\ ret' = 1
    /\ pos' = 1
    /\ ran' = <<>>
    /\ allocFailed' = 0
    /\ UNCHANGED <<g_CurrentTick, g_NextTaskID, g_ErrorCode, lastInv, retired, trackOrder, arrayVars>>

NextISR ==
    \/ SCH_Update_ISR
    \/ \E pFunction \in Funcs, DELAY \in 0..MaxDelay, PERIOD \in 0..MaxPeriod :
          Add_Begin(pFunction, DELAY, PERIOD)
    \/ Add_HeadLoad
    \/ Add_HeadStore
    \/ Add_HeadLink
    \/ Add_Search
    \/ \E taskID \in 0..MaxID : Delete_Begin(taskID)
    \/ Delete_HeadLoad
    \/ Delete_HeadStore

SpecISR == Init /\ [][NextISR]_vars

(***************************************************************************)
(* SpecArray: the array scheduler's SCH_Init, SCH_Add_Task and             *)
(* SCH_Delete_Task.  At most MaxLive slots are in use at a time, so the    *)
(* array is never full, and the id counter is followed up to               *)
(* SCH_MAX_TASKS + 1.                                                      *)
(***************************************************************************)
SCH_Init_G ==
    /\ SCH_tasks_G' = InitLoop(SCH_tasks_G, 0)
    /\ Error_code_G' = 0
    /\ Task_ID_Counter' = 1
    /\ op' = "Init_G"
    /\ ret' = 0
    /\ UNCHANGED listVars

SCH_Add_Task_G(pFunction, DELAY, PERIOD) ==
    /\ op' = "Add_G"
    /\ LET Index == FirstGap(SCH_tasks_G)
       IN IF Index = SCH_MAX_TASKS
          THEN /\ Error_code_G' = ERROR_SCH_TOO_MANY_TASKS
               /\ ret' = NO_TASK_ID
               /\ UNCHANGED <<SCH_tasks_G, Task_ID_Counter>>
          ELSE /\ SCH_tasks_G' = [SCH_tasks_G EXCEPT ![Index] =
                                     [pTask |-> pFunction, Delay |-> DELAY,
                                      Period |-> PERIOD, RunMe |-> 0,
                                      TaskID |-> Task_ID_Counter]]
               /\ Task_ID_Counter' = Task_ID_Counter + 1
               /\ ret' = Task_ID_Counter
               /\ UNCHANGED Error_code_G
    /\ UNCHANGED listVars

SCH_Delete_Task_G(taskID) ==
    /\ op' = "Delete_G"
    /\ LET r == DeleteFrom(SCH_tasks_G, taskID)
       IN /\ SCH_tasks_G' = r.tasks
          /\ ret' = r.code
          /\ Error_code_G' = IF r.code = RETURN_ERROR
                             THEN ERROR_SCH_CANNOT_DELETE_TASK
                             ELSE Error_code_G
    /\ UNCHANGED <<Task_ID_Counter, listVars>>

AddStep_G ==
    \E pFunction \in Funcs, PERIOD \in {0, MaxPeriod} :
        /\ Cardinality(Occupied(SCH_tasks_G)) < MaxLive
        /\ Task_ID_Counter <= SCH_MAX_TASKS
        /\ SCH_Add_Task_G(pFunction, PERIOD, PERIOD)

\* the id in a slot (0 in a free one), or an id no slot carries
DeleteStep_G ==
    \E taskID \in {SCH_tasks_G[Index].TaskID : Index \in 0..(MaxLive - 1)}
                  \cup {Task_ID_Counter} :
        SCH_Delete_Task_G(taskID)

NextArray ==
    \/ SCH_Init_G
    \/ AddStep_G
    \/ DeleteStep_G

SpecArray == InitArray /\ [][NextArray]_vars

(***************************************************************************)
(* Properties.                                                             *)
(***************************************************************************)
Max(a, b) == IF a >= b THEN a ELSE b

\* <<due, seq>> pairs: a is due before b, or at the same tick and inserted first
InvokedBefore(a, b) == a[1] < b[1] \/ (a[1] = b[1] /\ a[2] < b[2])

\* the same node but for its relative delay and its insertion number
SameTask(a, b) ==
    /\ a.pTask = b.pTask /\ a.Period = b.Period /\ a.TaskID = b.TaskID /\ a.due = b.due

\* C1: with registrations and deletions only (no tick), the Delay fields from
\* the head up to and including a node add up to the DELAY the node was
\* registered with (its due tick less the tick counter, which stays 0).
C1_DeltaInvariant ==
    \A i \in 1..Len(queue) : PrefixSum(queue, i) = queue[i].due - g_CurrentTick

\* a node was put between two others and then the middle node was deleted
C1_Witness ==
    /\ op = "Delete" /\ ret = 1 /\ pos = 2
    /\ Len(queue) = 2
    /\ queue[1].Delay = 1 /\ queue[2].Delay = 1
    /\ queue[1].TaskID > queue[2].TaskID

\* C2: no callback is invoked before its due tick: the tick of registration
\* plus the delay, or the tick of the previous invocation plus the period.
C2_NoEarlyRun ==
    op = "Dispatch" => \A k \in 1..Len(ran) : ran[k].due <= g_CurrentTick

\* a periodic task invoked at tick 2, exactly when due, next to a one-shot
C2_Witness ==
    /\ op = "Dispatch" /\ g_CurrentTick = 2
    /\ Len(ran) = 2
    /\ ran[1].due = 2 /\ ran[1].Period = 0
    /\ ran[2].due = 2 /\ ran[2].Period = 1

\* C3: ticks that occur while a due node waits at the head are not lost: the
\* remaining delay of every node is its due tick less the tick counter,
\* floored at zero.
C3_NoTickLost ==
    \A i \in 1..Len(queue) :
        PrefixSum(queue, i) = Max(0, queue[i].due - g_CurrentTick)

\* C4: with SCH_Dispatch_Tasks called after every tick, callbacks are invoked
\* in non-decreasing order of due tick, and nodes with equal due ticks in the
\* order of their insertion.
C4_DueOrderFifoTies ==
    [][op' = "Dispatch" =>
         LET inv == (IF lastInv = NoInv THEN <<>> ELSE <<lastInv>>) \o
                    [k \in 1..Len(ran') |-> <<ran'[k].due, ran'[k].seq>>]
         IN \A k \in 1..(Len(inv) - 1) : InvokedBefore(inv[k], inv[k + 1])]_vars

\* C5: a successful SCH_Delete_Task(id) removes the node with that id and no
\* other; the other nodes keep their order, their fields and their absolute
\* remaining delay (the sum of Delay from the head), wherever the node was.
C5_DeleteDonatesDelay ==
    [][\A id \in Ids(queue) :
         (op' = "Delete" /\ SCH_Delete_Task(id)) =>
            \E i \in 1..Len(queue) :
                /\ queue[i].TaskID = id
                /\ ret' = 1
                /\ Len(queue') = Len(queue) - 1
                /\ \A j \in 1..(i - 1) :
                      /\ SameTask(queue'[j], queue[j])
                      /\ PrefixSum(queue', j) = PrefixSum(queue, j)
                /\ \A j \in (i + 1)..Len(queue) :
                      /\ SameTask(queue'[j - 1], queue[j])
                      /\ PrefixSum(queue', j - 1) = PrefixSum(queue, j)]_vars

\* A(0), B(1), C(2) queued and B deleted: A is due at once and C after 2 ticks
C5_Witness ==
    /\ op = "Delete" /\ ret = 1 /\ pos = 2
    /\ Len(queue) = 2
    /\ PrefixSum(queue, 1) = 0 /\ PrefixSum(queue, 2) = 2
    /\ queue[1].TaskID = 1 /\ queue[2].TaskID = 3

\* C6: with SCH_Dispatch_Tasks called after every tick, a periodic task is
\* invoked once by a call, and after an invocation at tick t it is invoked
\* again at tick t + Period: no sooner, and no later.
C6_PeriodicRoundTrip ==
    op = "Dispatch" =>
        /\ \A k, l \in 1..Len(ran) : ran[k].TaskID = ran[l].TaskID => k = l
        /\ \A k \in 1..Len(ran) : ran[k].rearmed => ran[k].due = g_CurrentTick
        /\ \A i \in 1..Len(queue) : queue[i].rearmed => g_CurrentTick < queue[i].due

\* C7: once a one-shot task has been invoked, no node carries its id, its
\* callback is not invoked again by any later dispatch, and SCH_Delete_Task
\* with its id returns 0.
C7_OneShotRemoved ==
    [][/\ retired' \cap Ids(queue') = {}
       /\ op' = "Dispatch" => \A k \in 1..Len(ran') : ran'[k].TaskID \notin retired
       /\ \A id \in retired : (op' = "Delete" /\ SCH_Delete_Task(id)) => ret' = 0]_vars

\* task 1 ran as a one-shot, and a later dispatch at a later tick ran another task
C7_Witness ==
    /\ 1 \in retired
    /\ op = "Dispatch" /\ g_CurrentTick = 2
    /\ Len(ran) = 1 /\ ran[1].TaskID = 2 /\ ran[1].due = 2

\* C8: when the allocation for a reschedule fails in SCH_Dispatch_Tasks, the
\* error slot holds a non-zero code afterwards.
C8_RescheduleFailureRecorded ==
    (op = "Dispatch" /\ allocFailed > 0) => g_ErrorCode # 0

\* C9: SCH_Add_Task with a NULL callback or a failed allocation returns
\* NO_TASK_ID, sets ERROR_SCH_TOO_MANY_TASKS, and leaves the list and the id
\* counter as they were.
C9_FailedAddNoEffect ==
    [][op' = "Add" =>
         \/ /\ ret' = NO_TASK_ID
            /\ g_ErrorCode' = ERROR_SCH_TOO_MANY_TASKS
            /\ queue' = queue
            /\ g_NextTaskID' = g_NextTaskID
         \/ ~ \E pFunction \in Funcs \cup {NULL}, DELAY \in 0..MaxDelay,
                  PERIOD \in 0..MaxPeriod :
                  \* the call fails: NULL callback, or the allocation fails
                  SCH_Add_Task(pFunction, DELAY, PERIOD, pFunction = NULL)]_vars

\* a registration failed with three tasks queued at different due ticks
C9_Witness ==
    /\ op = "Add" /\ ret = NO_TASK_ID /\ g_ErrorCode = ERROR_SCH_TOO_MANY_TASKS
    /\ Len(queue) = 3
    /\ queue[2].Delay > 0 /\ queue[3].Delay > 0
    /\ g_NextTaskID = 4

\* C10: SCH_Delete_Task with an id that no node carries returns 0, sets a
\* non-zero error code, and leaves the list as it was.
C10_FailedDeleteNoEffect ==
    [][\A id \in (0..MaxID) \ Ids(queue) :
         (op' = "Delete" /\ SCH_Delete_Task(id))
            => /\ ret' = 0
               /\ g_ErrorCode' # 0
               /\ queue' = queue]_vars

\* a deletion failed on a list of two nodes: the id was not found
C10_Witness ==
    /\ op = "Delete" /\ ret = 0 /\ g_ErrorCode = ERROR_SCH_TASK_NOT_FOUND
    /\ Len(queue) = 2 /\ queue[2].Delay > 0

\* C11: every id returned by a successful SCH_Add_Task is non-zero, and the
\* queued nodes carry non-zero, pairwise different ids, however many ids
\* have been handed out before.
C11_IdsPositiveUnique ==
    /\ (op = "Add" /\ pos > 0) => ret # NO_TASK_ID
    /\ \A i \in 1..Len(queue) : queue[i].TaskID # NO_TASK_ID
    /\ \A i, j \in 1..Len(queue) : i # j => queue[i].TaskID # queue[j].TaskID

\* the last operation reported a failure / ran to a successful end
OpFailed ==
    \/ op = "Add" /\ ret = NO_TASK_ID
    \/ op = "Delete" /\ ret = 0
    \/ op = "Dispatch" /\ allocFailed > 0

OpSucceeded ==
    \/ op \in {"Update", "GetTime"}
    \/ op = "Add" /\ ret # NO_TASK_ID
    \/ op = "Delete" /\ ret = 1
    \/ op = "Dispatch" /\ allocFailed = 0

\* C12: SCH_Get_Error_Code returns the code of the most recent failing
\* operation since the last read and clears the slot, so that a second read
\* returns 0; an operation that succeeds leaves the slot as it was.
C12_ErrorReadAndClear ==
    [][/\ op' = "GetError" =>
            /\ g_ErrorCode' = 0
            /\ op = "GetError" => ret' = 0
            /\ (op = "Add" /\ OpFailed) => ret' = ERROR_SCH_TOO_MANY_TASKS
            /\ (op = "Delete" /\ OpFailed) =>
                    ret' \in {ERROR_SCH_CANNOT_DELETE_TASK, ERROR_SCH_TASK_NOT_FOUND}
            /\ (op = "Dispatch" /\ OpFailed) => ret' # 0
       /\ OpSucceeded' => g_ErrorCode' = g_ErrorCode]_vars

\* C13: SCH_Update changes at most one node: it takes one off the head's
\* Delay when the queue is not empty and that Delay is above 0, and changes
\* no node otherwise; the nodes, their order, ids and periods, and the Delay
\* of every node behind the head stay as they were.
C13_UpdateTouchesHeadOnly ==
    [][op' = "Update" =>
        /\ Len(queue') = Len(queue)
        /\ \A i \in 2..Len(queue) : queue'[i] = queue[i]
        /\ queue # EmptyList =>
              /\ [queue'[1] EXCEPT !.Delay = queue[1].Delay] = queue[1]
              /\ queue'[1].Delay = IF queue[1].Delay > 0
                                   THEN queue[1].Delay - 1
                                   ELSE queue[1].Delay]_vars

\* a tick that took the head to 0 while a node behind it still waits
C13_Witness ==
    /\ op = "Update"
    /\ Len(queue) >= 2
    /\ queue[1].Delay = 0
    /\ queue[1].due = g_CurrentTick
    /\ queue[2].Delay > 0

\* C14: SCH_Init leaves the queue empty, the tick counter 0 (so that
\* SCH_Get_Current_Time returns 0), the error slot 0 and the id counter 1;
\* the counter stays 1 until an add succeeds, and that add returns id 1.
C14_InitResets ==
    [][/\ op' = "Init" =>
            /\ queue' = EmptyList
            /\ g_CurrentTick' = 0
            /\ g_ErrorCode' = 0
            /\ g_NextTaskID' = 1
       /\ (op = "Init" /\ op' = "GetTime") => ret' = 0
       /\ (op' # "Init" /\ ~(op' = "Add" /\ pos' > 0)) => g_NextTaskID' = g_NextTaskID
       /\ (g_NextTaskID = 1 /\ op' = "Add" /\ pos' > 0) => ret' = 1]_vars

\* SCH_Init has run on a full queue
C14_Witness ==
    /\ op = "Init"
    /\ pos = MaxTasks
    /\ queue = EmptyList
    /\ g_NextTaskID = 1

\* position of the first node of q whose cumulative delay is at least /
\* above d, Len(q) + 1 if there is none
FirstAtOrAfter(q, d) ==
    IF \E i \in 1..Len(q) : PrefixSum(q, i) >= d
    THEN CHOOSE i \in 1..Len(q) :
            PrefixSum(q, i) >= d /\ \A j \in 1..(i - 1) : PrefixSum(q, j) < d
    ELSE Len(q) + 1

FirstAfter(q, d) ==
    IF \E i \in 1..Len(q) : PrefixSum(q, i) > d
    THEN CHOOSE i \in 1..Len(q) :
            PrefixSum(q, i) > d /\ \A j \in 1..(i - 1) : PrefixSum(q, j) <= d
    ELSE Len(q) + 1

\* C15: SCH_Add_Task places the new node immediately before the first node
\* whose cumulative delay is strictly above the requested delay, at the tail
\* if there is none: a new node due at the same tick as queued nodes is
\* placed behind them.
C15_TieAfterExisting ==
    [][op' = "Add" =>
        \A pFunction \in Funcs, DELAY \in 0..MaxDelay, PERIOD \in 0..MaxPeriod :
            SCH_Add_Task(pFunction, DELAY, PERIOD, TRUE) =>
                /\ pos' = FirstAfter(queue, DELAY)
                /\ queue'[pos'].TaskID = ret'
                /\ PrefixSum(queue', pos') = DELAY]_vars

\* C15 as stated: the new node is placed immediately before the first node
\* whose cumulative delay is at least the requested delay, ahead of a queued
\* node due at the same tick.
C15_TieBeforeExisting ==
    [][op' = "Add" =>
        \A pFunction \in Funcs, DELAY \in 0..MaxDelay, PERIOD \in 0..MaxPeriod :
            SCH_Add_Task(pFunction, DELAY, PERIOD, TRUE) =>
                pos' = FirstAtOrAfter(queue, DELAY)]_vars

\* an add that met a queued node due at the same tick, not yet due
C15_Witness ==
    /\ op = "Add"
    /\ pos = 2
    /\ Len(queue) = 3
    /\ queue[1].Delay > 0
    /\ queue[2].Delay = 0
    /\ queue[3].Delay > 0

\* C17: a call of SCH_Dispatch_Tasks ends after one iteration for each node
\* whose cumulative delay was 0 when the call began; it invokes those nodes,
\* each once and in queue order, and no other; when it returns the head, if
\* there is one, has Delay > 0.
C17_DispatchDrainsDue ==
    [][op' = "Dispatch" =>
        /\ Len(ran') = DueCount(queue)
        /\ \A i \in 1..DueCount(queue) : ran'[i] = queue[i]
        /\ queue' # EmptyList => queue'[1].Delay > 0]_vars

\* a dispatch that ran two due nodes, the first of them periodic, and left
\* a node waiting
C17_Witness ==
    /\ op = "Dispatch"
    /\ Len(ran) = 2
    /\ ran[1].Period > 0
    /\ ran[1].TaskID # ran[2].TaskID
    /\ queue # EmptyList
    /\ queue[1].Delay > 0

\* the list as the program stores it, without the history fields
Stored(q) ==
    [i \in 1..Len(q) |-> [pTask |-> q[i].pTask, Delay |-> q[i].Delay,
                          Period |-> q[i].Period, TaskID |-> q[i].TaskID]]

\* C18: the re-insertion written out in SCH_Dispatch_Tasks gives the list
\* that the insertion of SCH_Add_Task(callback, P, P) gives from the same
\* list, for every queue and every suffix a dispatch can be left with; the
\* rescheduled node keeps its id and the id counter does not move, so a
\* node with the original id is still found after a dispatch.
C18_RescheduleIsInsert ==
    /\ [](\A k \in 0..Len(queue), P \in 1..MaxPeriod, pFunction \in Funcs :
            LET rest == SubSeq(queue, k + 1, Len(queue))
                node == NewNode(pFunction, P, 1, g_CurrentTick + P, 0, FALSE)
            IN ReschedInsert(rest, node, P) = AddInsert(rest, node, P).q)
    /\ [][op' = "Dispatch" =>
            /\ g_NextTaskID' = g_NextTaskID
            /\ allocFailed' = 0 =>
                  \A k \in 1..Len(ran') :
                      ran'[k].Period > 0 =>
                          /\ FindTask(queue', ran'[k].TaskID) # 0
                          /\ queue'[FindTask(queue', ran'[k].TaskID)].pTask = ran'[k].pTask
                          /\ queue'[FindTask(queue', ran'[k].TaskID)].Period = ran'[k].Period
            /\ (allocFailed' = 0 /\ DueCount(queue) = 1 /\ queue[1].Period > 0) =>
                  Stored(queue') =
                      Stored(AddInsert(Tail(queue), queue[1], queue[1].Period).q)]_vars

\* a dispatch re-inserted a periodic node behind two waiting nodes, the
\* second of them due at the same tick as the re-inserted one
C18_Witness ==
    /\ op = "Dispatch"
    /\ allocFailed = 0
    /\ Len(ran) = 1
    /\ ran[1].Period > 0
    /\ Len(queue) = 3
    /\ queue[3].TaskID = ran[1].TaskID
    /\ queue[3].Delay = 0

\* the operands of the subtractions SCH_Add_Task makes on list q with
\* delay DELAY: none takes more than there is
AddSubtractionsSafe(q, DELAY) ==
    IF q = EmptyList THEN TRUE
    ELSE IF DELAY < q[1].Delay
    THEN DELAY <= q[1].Delay
    ELSE LET w == AddWalk(q, 1, q[1].Delay, DELAY)
         IN /\ w[2] <= DELAY
            /\ w[1] < Len(q) => DELAY - w[2] <= q[w[1] + 1].Delay

\* the same for the re-insertion of SCH_Dispatch_Tasks
ReschedSubtractionsSafe(q, savedPeriod) ==
    IF q = EmptyList THEN TRUE
    ELSE IF savedPeriod < q[1].Delay
    THEN savedPeriod <= q[1].Delay
    ELSE LET w == ReschedWalk(q, 1, q[1].Delay, savedPeriod)
         IN /\ w[2] <= savedPeriod
            /\ w[1] < Len(q) => savedPeriod - w[2] <= q[w[1] + 1].Delay

\* C19: in every reachable queue the sums of Delay that the search loops and
\* the donation of SCH_Delete_Task form stay inside the unsigned range, and
\* for every delay and period of the range no subtraction of SCH_Add_Task
\* or of the re-insertion takes more than its left operand holds.
C19_NoWrapInDelayArithmetic ==
    /\ \A i \in 1..Len(queue) : PrefixSum(queue, i) < UintModulus
    /\ \A DELAY \in 0..(UintModulus - 1) : AddSubtractionsSafe(queue, DELAY)
    /\ \A k \in 1..Len(queue), savedPeriod \in 1..(UintModulus - 1) :
            ReschedSubtractionsSafe(SubSeq(queue, k + 1, Len(queue)), savedPeriod)

\* an add with the largest delay of the range went behind two waiting nodes
\* and an add with a smaller one then went between them
C19_Witness ==
    /\ op = "Add"
    /\ pos = 2
    /\ Len(queue) = 3
    /\ PrefixSum(queue, 3) = UintModulus - 1
    /\ queue[1].Delay > 0
    /\ queue[2].Delay > 0
    /\ queue[3].Delay > 0

\* C16: with the tick interrupt arriving between the steps of the main-loop
\* calls, whenever a call has returned the cumulative delay of every node is
\* its requested delay less the ticks that found the head not yet due, so
\* no tick is lost and no Delay has gone below 0.
C16_DeltaInvariantUnderInterrupt ==
    pc = "idle" =>
        \A i \in 1..Len(queue) : PrefixSum(queue, i) = queue[i].due - g_CurrentTick

\* C20: in the array scheduler, after SCH_Init every slot is free (callback
\* NULL, TaskID 0) whatever tasks were registered, and the tasks in the
\* array carry different ids.
C20_InitEmptiesEverySlot ==
    /\ op = "Init_G" =>
          \A Index \in 0..(SCH_MAX_TASKS - 1) :
              /\ SCH_tasks_G[Index].pTask = NULL
              /\ SCH_tasks_G[Index].TaskID = NO_TASK_ID
    /\ \A i, j \in Occupied(SCH_tasks_G) :
          i # j => SCH_tasks_G[i].TaskID # SCH_tasks_G[j].TaskID

====
